---- MODULE Spec2Model ----
(***************************************************************************)
(* pyGCxGC: the chromatogram transform (1D trace -> 2D matrix, baseline,   *)
(* phase shift, normalisation) of src/pyGCxGC/main.py, its orchestrator    *)
(* parse_2D_chromatogram of src/pyGCxGC/parsing.py and the integration     *)
(* helpers of src/pyGCxGC/processing.py.                                   *)
(*                                                                         *)
(* Floating point numbers are modelled as exact rationals n/d (d > 0, in   *)
(* lowest terms) together with the three IEEE specials nan, inf and -inf   *)
(* (d = 0).  Rounding error of binary floating point is outside the model. *)
(***************************************************************************)
EXTENDS Integers, Sequences, FiniteSets, TLC

\* ------------------------------------------------------------------------
\* Numbers
\* ------------------------------------------------------------------------

Abs(i) == IF i < 0 THEN -i ELSE i

Sgn(i) == IF i < 0 THEN -1 ELSE IF i > 0 THEN 1 ELSE 0

RECURSIVE Gcd(_, _)
Gcd(a, b) == IF b = 0 THEN a ELSE Gcd(b, a % b)

\* the rational n/d, d # 0, in lowest terms with a positive denominator
Rat(n, d) ==
    LET g == Gcd(Abs(n), Abs(d))
        s == Sgn(d)
    IN  [n |-> (s * n) \div g, d |-> (s * d) \div g]

I(i) == [n |-> i, d |-> 1]

NaN == [n |-> 0, d |-> 0]
PosInf == [n |-> 1, d |-> 0]
NegInf == [n |-> -1, d |-> 0]

Zero == I(0)
One == I(1)

IsFinite(x) == x.d # 0
IsNaN(x) == x.d = 0 /\ x.n = 0
IsInf(x) == x.d = 0 /\ x.n # 0

\* IEEE comparisons: every comparison with nan is false
FEq(x, y) == ~IsNaN(x) /\ ~IsNaN(y) /\ x = y

FLt(x, y) ==
    IF IsNaN(x) \/ IsNaN(y) \/ x = y THEN FALSE
    ELSE IF x = NegInf \/ y = PosInf THEN TRUE
    ELSE IF x = PosInf \/ y = NegInf THEN FALSE
    ELSE x.n * y.d < y.n * x.d

FLe(x, y) == FEq(x, y) \/ FLt(x, y)

FNeg(x) == [n |-> -x.n, d |-> x.d]

FAdd(x, y) ==
    IF IsNaN(x) \/ IsNaN(y) THEN NaN
    ELSE IF IsInf(x) /\ IsInf(y) THEN (IF x = y THEN x ELSE NaN)
    ELSE IF IsInf(x) THEN x
    ELSE IF IsInf(y) THEN y
    ELSE Rat(x.n * y.d + y.n * x.d, x.d * y.d)

FSub(x, y) == FAdd(x, FNeg(y))

FMul(x, y) ==
    IF IsNaN(x) \/ IsNaN(y) THEN NaN
    ELSE IF IsInf(x) \/ IsInf(y)
         THEN (IF x.n = 0 \/ y.n = 0 THEN NaN
               ELSE IF Sgn(x.n) * Sgn(y.n) > 0 THEN PosInf ELSE NegInf)
    ELSE Rat(x.n * y.n, x.d * y.d)

\* array division (numpy / pandas): a zero divisor gives inf, -inf or nan and
\* no exception
FDiv(x, y) ==
    IF IsNaN(x) \/ IsNaN(y) THEN NaN
    ELSE IF IsInf(y) THEN (IF IsInf(x) THEN NaN ELSE Zero)
    ELSE IF y.n = 0
         THEN (IF x.n = 0 THEN NaN ELSE IF x.n > 0 THEN PosInf ELSE NegInf)
    ELSE IF IsInf(x)
         THEN (IF Sgn(x.n) * Sgn(y.n) > 0 THEN PosInf ELSE NegInf)
    ELSE Rat(x.n * y.d, x.d * y.n)

\* floor of a finite number
Floor(x) == x.n \div x.d

\* Python's round(x): to the nearest integer, ties to the even one
PyRound(x) ==
    LET f == Floor(x)
        twice == 2 * (x.n - f * x.d)
    IN  IF twice < x.d THEN f
        ELSE IF twice > x.d THEN f + 1
        ELSE IF f % 2 = 0 THEN f ELSE f + 1

\* int(x) of a finite number: truncation toward zero
PyInt(x) == IF x.n >= 0 THEN Floor(x) ELSE -Floor(FNeg(x))

CeilDiv(a, b) == (a + b - 1) \div b

\* tolerance=1e-10, written 1 / (TolRoot * TolRoot)
TolRoot == 100000

\* a/b < 1e-10 for a finite number a/b >= 0, without leaving 32 bits:
\* a * TolRoot^2 < b  <=>  a < ceil(ceil(b / TolRoot) / TolRoot)
BelowTolerance(x) == x.n < CeilDiv(CeilDiv(x.d, TolRoot), TolRoot)

FAbs(x) == [n |-> Abs(x.n), d |-> x.d]

\* results of calls that may raise
Ok(v) == [ok |-> TRUE, val |-> v, exc |-> ""]
Raise(e) == [ok |-> FALSE, val |-> Zero, exc |-> e]

\* Python scalar division a / b
PyDiv(a, b) == IF b.n = 0 /\ b.d # 0 THEN Raise("ZeroDivisionError") ELSE Ok(FDiv(a, b))

\* main.is_integer_multiple(larger, smaller, tolerance=1e-10)
is_integer_multiple(larger, smaller) ==
    LET ratio == PyDiv(larger, smaller)
    IN  IF ~ratio.ok THEN [ok |-> FALSE, val |-> FALSE, exc |-> ratio.exc]
        ELSE IF IsNaN(ratio.val) THEN [ok |-> FALSE, val |-> FALSE, exc |-> "ValueError"]
        ELSE IF IsInf(ratio.val) THEN [ok |-> FALSE, val |-> FALSE, exc |-> "OverflowError"]
        ELSE [ok |-> TRUE,
              val |-> BelowTolerance(FAbs(FSub(I(PyRound(ratio.val)), ratio.val))),
              exc |-> ""]


\* ------------------------------------------------------------------------
\* The 1D trace: a DataFrame, one record per row.  label is the row's index
\* label, t its 'Ret.Time[s]', y its 'Absolute Intensity' and split its
\* 'split_no_fromindex' (nan while the frame has no such column).
\* ------------------------------------------------------------------------

Row(label, t, y) == [label |-> label, t |-> t, y |-> y, split |-> NaN]

Frame(rows) == [rows |-> rows, split_col |-> FALSE]

\* Series.max() / Series.min() of a column of numbers: nan entries are
\* skipped, and the result is nan when nothing is left
SeriesMax(vals) ==
    LET S == {vals[i] : i \in 1..Len(vals)} \ {NaN}
    IN  IF S = {} THEN NaN ELSE CHOOSE v \in S : \A w \in S : FLe(w, v)

SeriesMin(vals) ==
    LET S == {vals[i] : i \in 1..Len(vals)} \ {NaN}
    IN  IF S = {} THEN NaN ELSE CHOOSE v \in S : \A w \in S : FLe(v, w)

SplitColumn(rows) == [i \in 1..Len(rows) |-> rows[i].split]

IntensityColumn(rows) == [i \in 1..Len(rows) |-> rows[i].y]

\* len(df[df['split_no_fromindex'] == v])
CountSplit(rows, v) == Cardinality({i \in 1..Len(rows) : FEq(rows[i].split, v)})

\* split_solvent sparing the rows whose time equals solvent_time
split_solvent_strict(df, solvent_time) ==
    [df EXCEPT !.rows = [i \in 1..Len(df.rows) |->
        IF FLt(df.rows[i].t, solvent_time)
        THEN [df.rows[i] EXCEPT !.y = Zero]
        ELSE df.rows[i]]]

\* main.split_solvent(df, solvent_time): in place, on the caller's frame
split_solvent(df, solvent_time) ==
    [df EXCEPT !.rows = [i \in 1..Len(df.rows) |->
        IF FLe(df.rows[i].t, solvent_time)
        THEN [df.rows[i] EXCEPT !.y = Zero]
        ELSE df.rows[i]]]

\* the factor of  modulation_time/sampling_interval*1000
MsPerS == 1000

\* df.index // rows_splitting for one label: a float floor division in which
\* pandas fills the zero divisor's results with nan (0 // 0), inf and -inf
IndexFloorDiv(label, rows_splitting) ==
    IF ~IsFinite(rows_splitting) THEN NaN
    ELSE IF rows_splitting.n = 0
         THEN (IF label = 0 THEN NaN ELSE IF label > 0 THEN PosInf ELSE NegInf)
    ELSE I(Floor(FDiv(I(label), rows_splitting)))

\* df.loc[label] = row: the row labelled label takes row's values, and a row
\* with that label is appended when the frame has none
LocSet(rows, label, row) ==
    IF \E i \in 1..Len(rows) : rows[i].label = label
    THEN [i \in 1..Len(rows) |->
             IF rows[i].label = label THEN [row EXCEPT !.label = label] ELSE rows[i]]
    ELSE Append(rows, [row EXCEPT !.label = label])

\* the loop condition of add_split
NeedsPadding(rows) ==
    CountSplit(rows, SeriesMax(SplitColumn(rows)))
        < CountSplit(rows, SeriesMin(SplitColumn(rows)))

\* the while loop of add_split.  fuel bounds the iterations the model follows:
\* a loop still running when it is used up is reported as not terminating.
RECURSIVE PadLoop(_, _)
PadLoop(rows, fuel) ==
    IF NeedsPadding(rows)
    THEN IF fuel = 0 THEN [status |-> "hang", rows |-> rows]
         ELSE PadLoop(LocSet(rows, Len(rows) + 1, rows[Len(rows)]), fuel - 1)
    ELSE [status |-> "ok", rows |-> rows]

\* A terminating run appends fewer rows than the frame held on entry (the
\* last segment grows to the size of the first); twice that is ample.
PadFuel(rows) == 2 * Len(rows) + 2

\* main.add_split(df, modulation_time, sampling_interval): in place.
\* status is "ok", "raise" (exc) or "hang" (the loop does not terminate)
\* add_split without its padding loop
add_split_unpadded(df, modulation_time, sampling_interval) ==
    LET q == PyDiv(modulation_time, sampling_interval)
    IN  IF ~q.ok THEN [status |-> "raise", exc |-> q.exc, df |-> df]
        ELSE LET rows_splitting == FMul(q.val, I(MsPerS))
                 indexed == [i \in 1..Len(df.rows) |->
                                [df.rows[i] EXCEPT !.split =
                                    IndexFloorDiv(df.rows[i].label, rows_splitting)]]
             IN  [status |-> "ok", exc |-> "",
                  df |-> [rows |-> indexed, split_col |-> TRUE]]

add_split(df, modulation_time, sampling_interval) ==
    LET q == PyDiv(modulation_time, sampling_interval)
    IN  IF ~q.ok THEN [status |-> "raise", exc |-> q.exc, df |-> df]
        ELSE LET rows_splitting == FMul(q.val, I(MsPerS))
                 indexed == [i \in 1..Len(df.rows) |->
                     [df.rows[i] EXCEPT
                         !.split = IndexFloorDiv(df.rows[i].label, rows_splitting)]]
                 padded == PadLoop(indexed, PadFuel(indexed))
             IN  [status |-> padded.status, exc |-> "",
                  df |-> [rows |-> padded.rows, split_col |-> TRUE]]

\* ------------------------------------------------------------------------
\* The 2D chromatogram: kind tells a pandas DataFrame from a numpy ndarray;
\* m is the R x C matrix as a sequence of R rows; index and columns are the
\* DataFrame's row and column labels (empty for an ndarray).
\* ------------------------------------------------------------------------

NoMatrix == [kind |-> "None", R |-> 0, C |-> 0, m |-> <<>>, index |-> <<>>, columns |-> <<>>]

Ok2D(v) == [ok |-> TRUE, val |-> v, exc |-> ""]
Raise2D(e) == [ok |-> FALSE, val |-> NoMatrix, exc |-> e]

\* 10^3 of round(x, 3)
RoundScale == 1000

\* round(x, 3) of a finite number
Round3(x) == Rat(PyRound(FMul(x, I(RoundScale))), RoundScale)

\* df_short[df_short['split_no_fromindex']==i]['Absolute Intensity'].values
SegmentValues(rows, i) ==
    IntensityColumn(SelectSeq(rows, LAMBDA r : FEq(r.split, I(i))))

\* array[i,:] = src : numpy broadcasts a length-1 src over the row
BroadcastOk(src, width) == Len(src) = width \/ Len(src) = 1

BroadcastAt(src, j) == IF Len(src) = 1 THEN src[1] ELSE src[j]

\* the number of segments convert_to2D reads: range(0, int(max))
SegmentRange(mx) == IF PyInt(mx) > 0 THEN PyInt(mx) ELSE 0

\* convert_to2D without the final  df_array.iloc[::-1]
convert_to2D_unreversed(df, modulation_time) ==
    LET mx == SeriesMax(SplitColumn(df.rows))
    IN  IF IsNaN(mx) THEN Raise2D("ValueError")
        ELSE IF IsInf(mx) THEN Raise2D("OverflowError")
        ELSE LET nseg == SegmentRange(mx)
                 array_list == [i \in 1..nseg |-> SegmentValues(df.rows, i - 1)]
             IN  IF nseg = 0 THEN Raise2D("IndexError")
                 ELSE LET W == Len(array_list[1])
                      IN  IF \E i \in 1..nseg : ~BroadcastOk(array_list[i], W)
                          THEN Raise2D("ValueError")
                          ELSE Ok2D([kind |-> "DataFrame", R |-> W, C |-> nseg,
                                m |-> [r \in 1..W |-> [c \in 1..nseg |->
                                         BroadcastAt(array_list[c], r)]],
                                index |-> [r \in 1..W |->
                                         Round3(FDiv(FMul(I(r - 1), modulation_time), I(W)))],
                                columns |-> [c \in 1..nseg |->
                                         FMul(I(c - 1), modulation_time)]])

\* main.convert_to2D(df, modulation_time)
convert_to2D(df, modulation_time) ==
    LET mx == SeriesMax(SplitColumn(df.rows))
    IN  IF IsNaN(mx) THEN Raise2D("ValueError")
        ELSE IF IsInf(mx) THEN Raise2D("OverflowError")
        ELSE LET nseg == SegmentRange(mx)
                 array_list == [i \in 1..nseg |-> SegmentValues(df.rows, i - 1)]
             IN  IF nseg = 0 THEN Raise2D("IndexError")
                 ELSE LET W == Len(array_list[1])
                      IN  IF \E i \in 1..nseg : ~BroadcastOk(array_list[i], W)
                          THEN Raise2D("ValueError")
                          ELSE Ok2D([kind |-> "DataFrame", R |-> W, C |-> nseg,
                                m |-> [r \in 1..W |-> [c \in 1..nseg |->
                                         BroadcastAt(array_list[c], W + 1 - r)]],
                                index |-> [r \in 1..W |->
                                         Round3(FDiv(FMul(I(W - r), modulation_time), I(W)))],
                                columns |-> [c \in 1..nseg |->
                                         FMul(I(c - 1), modulation_time)]])

\* ------------------------------------------------------------------------
\* Matrix transforms
\* ------------------------------------------------------------------------

Column(M, c) == [r \in 1..M.R |-> M.m[r][c]]

\* M with every element replaced by F(r, c)
MapMatrix(M, F(_, _)) == [M EXCEPT !.m = [r \in 1..M.R |-> [c \in 1..M.C |-> F(r, c)]]]

\* ndarray.min() / ndarray.max() of a non-empty vector: nan propagates
NdMin(vals) ==
    IF \E i \in 1..Len(vals) : IsNaN(vals[i]) THEN NaN ELSE SeriesMin(vals)

NdMax(vals) ==
    IF \E i \in 1..Len(vals) : IsNaN(vals[i]) THEN NaN ELSE SeriesMax(vals)

\* all elements of the matrix, row after row
RECURSIVE Flatten(_)
Flatten(rows) == IF rows = <<>> THEN <<>> ELSE Head(rows) \o Flatten(Tail(rows))

\* x.min(axis=0) for one column: a DataFrame skips nan, an ndarray does not
ColumnMin(M, c) ==
    IF M.kind = "DataFrame" THEN SeriesMin(Column(M, c)) ELSE NdMin(Column(M, c))

\* baseline_stridewise subtracting the minimum of the whole matrix
baseline_stridewise_whole(df_array) ==
    LET lowest == NdMin(Flatten(df_array.m))
    IN  MapMatrix(df_array, LAMBDA r, c : FSub(df_array.m[r][c], lowest))

\* main.baseline_stridewise(df_array)
baseline_stridewise(df_array) ==
    MapMatrix(df_array, LAMBDA r, c : FSub(df_array.m[r][c], ColumnMin(df_array, c)))

\* parsing.py: chrom_2D - chrom['Absolute Intensity'].min()
baseline_global(chrom_2D_, chrom_) ==
    LET lowest == SeriesMin(IntensityColumn(chrom_.rows))
    IN  MapMatrix(chrom_2D_, LAMBDA r, c : FSub(chrom_2D_.m[r][c], lowest))

\* the caller's callable of baseline_type: here  lambda a: a - 1
baseline_callable(chrom_2D_) ==
    MapMatrix(chrom_2D_, LAMBDA r, c : FSub(chrom_2D_.m[r][c], One))

\* shift_phase moving the rows without wrapping: vacated rows are 0
shift_phase_fill(df_array, shift) ==
    [kind |-> "ndarray", R |-> df_array.R, C |-> df_array.C,
     m |-> [r \in 1..df_array.R |->
               IF r - shift \in 1..df_array.R
               THEN df_array.m[r - shift]
               ELSE [c \in 1..df_array.C |-> Zero]],
     index |-> <<>>, columns |-> <<>>]

\* main.shift_phase(df_array, shift): np.roll(df_array, shift, axis=0), an
\* ndarray whatever df_array was
shift_phase(df_array, shift) ==
    [kind |-> "ndarray", R |-> df_array.R, C |-> df_array.C,
     m |-> [r \in 1..df_array.R |->
               df_array.m[((r - 1 - shift) % df_array.R) + 1]],
     index |-> <<>>, columns |-> <<>>]

RECURSIVE SeqSum(_)
SeqSum(s) == IF s = <<>> THEN Zero ELSE FAdd(Head(s), SeqSum(Tail(s)))

Half == Rat(1, 2)

\* scipy.integrate.trapezoid(y) with unit spacing: sum((y[1:] + y[:-1]) / 2)
trapezoid(y) ==
    SeqSum([i \in 1..(Len(y) - 1) |-> FMul(FAdd(y[i + 1], y[i]), Half)])

\* trapezoid(array, axis=0) and then trapezoid of the per-column totals
DoubleTrapezoid(M) == trapezoid([c \in 1..M.C |-> trapezoid(Column(M, c))])

\* integrate_2D adding up the elements
integrate_2D_sum(Chrom_2D) == SeqSum(Flatten(Chrom_2D.m))

\* processing.integrate_2D(Chrom_2D)
integrate_2D(Chrom_2D) == DoubleTrapezoid(Chrom_2D)

\* normalize_by_volume dividing by the plain sum of the elements
normalize_by_volume_sum(df_array) ==
    LET total == SeqSum(Flatten(df_array.m))
    IN  MapMatrix(df_array, LAMBDA r, c : FDiv(df_array.m[r][c], total))

\* main.normalize_by_volume(df_array)
normalize_by_volume(df_array) ==
    LET integral_non_norm == DoubleTrapezoid(df_array)
    IN  MapMatrix(df_array, LAMBDA r, c : FDiv(df_array.m[r][c], integral_non_norm))

\* parsing.py: chrom_2D / chrom_2D.max().  DataFrame.max() is the Series of
\* the column maxima and the division pairs it with the columns; ndarray.max()
\* is the one maximum of the whole array.
normalize_max(chrom_2D_) ==
    IF chrom_2D_.kind = "DataFrame"
    THEN MapMatrix(chrom_2D_, LAMBDA r, c :
             FDiv(chrom_2D_.m[r][c], SeriesMax(Column(chrom_2D_, c))))
    ELSE MapMatrix(chrom_2D_, LAMBDA r, c :
             FDiv(chrom_2D_.m[r][c], NdMax(Flatten(chrom_2D_.m))))

\* ------------------------------------------------------------------------
\* The sample entity
\* ------------------------------------------------------------------------

NoEntity ==
    [kind |-> "None", chrom_1D |-> Frame(<<>>), chrom_2D |-> NoMatrix,
     sampling_interval |-> NaN, modulation_time |-> NaN, shift |-> 0,
     solvent_cutoff |-> NaN, name |-> "None", limits |-> <<>>]

SecondsPerMinute == 60

TimeColumn(rows) == [i \in 1..Len(rows) |-> rows[i].t]

\* main.GCxGC_FID.__init__: the parameters in the order of the signature.
\* chrom_2D.index does not exist on an ndarray.
GCxGC_FID(chrom_1D, chrom_2D_, sampling_interval, modulation_time, shift, solvent_cutoff) ==
    IF chrom_2D_.kind # "DataFrame"
    THEN [ok |-> FALSE, exc |-> "AttributeError", val |-> NoEntity]
    ELSE [ok |-> TRUE, exc |-> "",
          val |-> [kind |-> "GCxGC_FID", chrom_1D |-> chrom_1D, chrom_2D |-> chrom_2D_,
                   sampling_interval |-> sampling_interval,
                   modulation_time |-> modulation_time,
                   shift |-> shift, solvent_cutoff |-> solvent_cutoff,
                   name |-> "None",
                   limits |-> << FDiv(SeriesMin(TimeColumn(chrom_1D.rows)), I(SecondsPerMinute)),
                                 FDiv(SeriesMax(TimeColumn(chrom_1D.rows)), I(SecondsPerMinute)),
                                 SeriesMin(chrom_2D_.index),
                                 SeriesMax(chrom_2D_.index) >>]]

\* ------------------------------------------------------------------------
\* State
\* ------------------------------------------------------------------------

VARIABLES
    pc,          \* the statement parse_2D_chromatogram (or the library caller) is at
    call,        \* the arguments of the invocation
    chrom,       \* parse_2D_chromatogram's chrom: for a DataFrame argument the caller's own frame
    chrom_2D,    \* parse_2D_chromatogram's chrom_2D
    prev_2D,     \* the matrix the last matrix transform was applied to
    interval,    \* parse_2D_chromatogram's sampling_interval after inference
    name,        \* parse_2D_chromatogram's name
    Output,      \* the entity returned, NoEntity while there is none
    exc,         \* the exception raised, and the stage that raised it
    stages,      \* the stages run so far, in order
    first,       \* what a caller kept of an earlier invocation on the same table
    gui          \* the MaskCreatorGUI object: its chromatogram, original_chromatogram, mask, ...

\* no earlier invocation
NoOutcome == [kind |-> "None"]

\* no mask creator window
NoGui == [kind |-> "None"]

vars == <<pc, call, chrom, chrom_2D, prev_2D, interval, name, Output, exc, stages, first, gui>>

\* an argument that is a string or a number
Str(s) == [tag |-> "str", s |-> s, v |-> NaN]
Num(v) == [tag |-> "num", s |-> "", v |-> v]

NoExc == [type |-> "", stage |-> ""]

\* ------------------------------------------------------------------------
\* Inputs
\* ------------------------------------------------------------------------

\* longest caller-supplied trace
MaxLen == 5

Intensities == {1, 2}

\* A caller's frame: every 500th sample of a trace sampled each millisecond,
\* the rows keeping their labels 0, 500, 1000, ... and their times
TraceRows(ys) ==
    [i \in 1..Len(ys) |-> Row((i - 1) * 500, Rat((i - 1) * 500, 1000), I(ys[i]))]

DataFrames ==
    {[tag |-> "DataFrame", rows |-> TraceRows(ys), path |-> <<>>] :
        ys \in UNION {[1..n -> Intensities] : n \in 1..MaxLen}}

\* the CSV file of the tests: sampled every 4 ms, 'Time(min)' starting at 1 s
ExampleFile == [tag |-> "path", rows |-> <<>>, path |-> <<"example_chromatograms", "Example_FID.csv">>]

FileRows(path) ==
    [i \in 1..5 |-> [time_min |-> Rat(1000 + 4 * (i - 1), 60000), y |-> I(i)]]

\* an argument that is neither a frame nor a path
OtherData == [tag |-> "other", rows |-> <<>>, path |-> <<>>]

DefaultCall(data, modulation_time) ==
    [data |-> data, modulation_time |-> modulation_time,
     sampling_interval |-> Str("infer"), shift |-> 0,
     baseline_type |-> "stridewise", normalize |-> "volume",
     solvent_cutoff |-> Zero, kwargs |-> {}]

Shifts == {-1, 0, 1}
BaselineTypes == {"stridewise", "global", "callable", "none"}
NormalizeModes == {"volume", "max", "None"}
Cutoffs == {Zero, One}

\* invocations on a caller's frame with every combination of the options
OptionCalls ==
    {[DefaultCall(x[1], I(x[2][1])) EXCEPT
         !.sampling_interval = Num(I(x[2][2])), !.shift = x[3],
         !.baseline_type = x[4], !.normalize = x[5], !.solvent_cutoff = x[6]] :
       x \in DataFrames \X {<<1, 1>>, <<2, 1>>, <<2, 2>>} \X Shifts
               \X BaselineTypes \X NormalizeModes \X Cutoffs}

\* mode strings the pipeline has no branch for
UnknownModes == {<<"polynomial", "volume">>, <<"stridewise", "area">>, <<"polynomial", "area">>}

\* invocations on a caller's frame with an unknown baseline_type, an unknown
\* normalize, or both
ModeCalls ==
    {[DefaultCall(x[1], I(1)) EXCEPT
         !.sampling_interval = Num(I(1)),
         !.baseline_type = x[2][1], !.normalize = x[2][2]] :
       x \in DataFrames \X UnknownModes}

ModulationTimes == {-20, -1, 0, 1, 2, 3, 6, 20}
SamplingIntervals == {Str("infer"), Str("4ms"), Num(I(1)), Num(I(2)), Num(I(3)), Num(I(4)), Num(Zero)}

\* invocations with the default options on every kind of data, with every
\* pair (modulation_time, sampling_interval), with and without name=...
DefaultCalls ==
    {[DefaultCall(x[1], I(x[2])) EXCEPT !.sampling_interval = x[3], !.kwargs = x[4]] :
       x \in (DataFrames \cup {ExampleFile, OtherData}) \X ModulationTimes
               \X SamplingIntervals \X {{}, {"name"}}}

\* ------------------------------------------------------------------------
\* parsing.parse_csv and parsing.parse_2D_chromatogram, stage by stage
\* ------------------------------------------------------------------------

\* parsing.parse_csv(path)
parse_csv(path) ==
    LET raw == FileRows(path)
    IN  Frame([i \in 1..Len(raw) |->
            Row(i - 1,
                FMul(FSub(raw[i].time_min, raw[1].time_min), I(SecondsPerMinute)),
                raw[i].y)])

\* os.path.basename(path)
basename(path) == path[Len(path)]

\* the parameters of parse_2D_chromatogram
Parameters ==
    {"data", "modulation_time", "sampling_interval", "shift", "baseline_type",
     "normalize", "solvent_cutoff"}

\* the factor of  1000 * float(chrom['Ret.Time[s]'].diff()[1])
InferScale == 1000

\* chrom['Ret.Time[s]'].diff()[1]: the entry labelled 1 of the differences
DiffAtLabel1(rows) ==
    IF ~\E i \in 1..Len(rows) : rows[i].label = 1 THEN Raise("KeyError")
    ELSE LET i == CHOOSE j \in 1..Len(rows) : rows[j].label = 1
         IN  IF i = 1 THEN Ok(NaN) ELSE Ok(FSub(rows[i].t, rows[i - 1].t))

Raised(type, stage) ==
    /\ pc' = "raised"
    /\ exc' = [type |-> type, stage |-> stage]

\* the call itself: an unexpected keyword argument is a TypeError
Bind ==
    /\ pc = "bind"
    /\ IF call.kwargs \subseteq Parameters
       THEN pc' = "resolve" /\ exc' = exc
       ELSE Raised("TypeError", "bind")
    /\ UNCHANGED <<first, gui, call, chrom, chrom_2D, prev_2D, interval, name, Output, stages>>

\* parsing.py 73-80
Resolve ==
    /\ pc = "resolve"
    /\ stages' = Append(stages, "resolve")
    /\ CASE call.data.tag = "DataFrame" ->
              /\ chrom' = Frame(call.data.rows)
              /\ name' = "Chromatogram"
              /\ pc' = "cutoff" /\ exc' = exc
         [] call.data.tag = "path" ->
              /\ chrom' = parse_csv(call.data.path)
              /\ name' = basename(call.data.path)
              /\ pc' = "cutoff" /\ exc' = exc
         [] OTHER ->
              /\ Raised("TypeError", "resolve")
              /\ UNCHANGED <<chrom, name>>
    /\ UNCHANGED <<first, gui, call, chrom_2D, prev_2D, interval, Output>>

\* parsing.py 82-86
Cutoff ==
    /\ pc = "cutoff"
    /\ IF FLt(Zero, call.solvent_cutoff)
       THEN /\ chrom' = split_solvent(chrom, call.solvent_cutoff)
            /\ stages' = Append(stages, "split_solvent")
       ELSE UNCHANGED <<chrom, stages>>
    /\ pc' = "interval"
    /\ UNCHANGED <<first, gui, call, chrom_2D, prev_2D, interval, name, Output, exc>>

\* parsing.py 88-92
Interval ==
    /\ pc = "interval"
    /\ IF call.sampling_interval = Str("infer")
       THEN LET d == DiffAtLabel1(chrom.rows)
            IN  IF d.ok
                THEN /\ interval' = FMul(I(InferScale), d.val)
                     /\ pc' = "check" /\ exc' = exc
                ELSE Raised(d.exc, "interval") /\ UNCHANGED interval
       ELSE IF call.sampling_interval.tag = "str"
       THEN Raised("ValueError", "interval") /\ UNCHANGED interval
       ELSE /\ interval' = call.sampling_interval.v
            /\ pc' = "check" /\ exc' = exc
    /\ UNCHANGED <<first, gui, call, chrom, chrom_2D, prev_2D, name, Output, stages>>

\* parsing.py 94-97
Check ==
    /\ pc = "check"
    /\ stages' = Append(stages, "is_integer_multiple")
    /\ LET r == is_integer_multiple(call.modulation_time, interval)
       IN  IF ~r.ok THEN Raised(r.exc, "is_integer_multiple")
           ELSE IF ~r.val THEN Raised("AssertionError", "is_integer_multiple")
           ELSE pc' = "split" /\ exc' = exc
    /\ UNCHANGED <<first, gui, call, chrom, chrom_2D, prev_2D, interval, name, Output>>

\* the Splitter with a back edge to itself
Split_again ==
    /\ pc = "split"
    /\ stages' = Append(stages, "add_split")
    /\ LET r == add_split(chrom, call.modulation_time, interval)
       IN  /\ chrom' = r.df
           /\ CASE r.status = "ok" ->
                     /\ pc' = (IF Len(stages) < 4 THEN "split" ELSE "reshape")
                     /\ exc' = exc
                [] r.status = "hang" -> pc' = "hung" /\ exc' = exc
                [] OTHER -> Raised(r.exc, "add_split")
    /\ UNCHANGED <<first, gui, call, chrom_2D, prev_2D, interval, name, Output>>

\* parsing.py 101
Split ==
    /\ pc = "split"
    /\ stages' = Append(stages, "add_split")
    /\ LET r == add_split(chrom, call.modulation_time, interval)
       IN  /\ chrom' = r.df
           /\ CASE r.status = "ok" -> pc' = "reshape" /\ exc' = exc
                [] r.status = "hang" -> pc' = "hung" /\ exc' = exc
                [] OTHER -> Raised(r.exc, "add_split")
    /\ UNCHANGED <<first, gui, call, chrom_2D, prev_2D, interval, name, Output>>

\* parsing.py 102
Reshape ==
    /\ pc = "reshape"
    /\ stages' = Append(stages, "convert_to2D")
    /\ LET r == convert_to2D(chrom, call.modulation_time)
       IN  IF r.ok
           THEN chrom_2D' = r.val /\ pc' = "shift" /\ exc' = exc
           ELSE Raised(r.exc, "convert_to2D") /\ UNCHANGED chrom_2D
    /\ UNCHANGED <<first, gui, call, chrom, prev_2D, interval, name, Output>>

\* parsing.py 103-104
Shift ==
    /\ pc = "shift"
    /\ IF call.shift # 0
       THEN /\ chrom_2D' = shift_phase(chrom_2D, call.shift)
            /\ prev_2D' = chrom_2D
            /\ stages' = Append(stages, "shift_phase")
       ELSE UNCHANGED <<chrom_2D, prev_2D, stages>>
    /\ pc' = "baseline"
    /\ UNCHANGED <<first, gui, call, chrom, interval, name, Output, exc>>

\* parsing.py 106-115
Baseline ==
    /\ pc = "baseline"
    /\ stages' = Append(stages, "baseline")
    /\ prev_2D' = chrom_2D
    /\ chrom_2D' = CASE call.baseline_type = "stridewise" -> baseline_stridewise(chrom_2D)
                     [] call.baseline_type = "global" -> baseline_global(chrom_2D, chrom)
                     [] call.baseline_type = "callable" -> baseline_callable(chrom_2D)
                     [] OTHER -> chrom_2D
    /\ pc' = "normalize"
    /\ UNCHANGED <<first, gui, call, chrom, interval, name, Output, exc>>

\* parsing.py 117-123
Normalize ==
    /\ pc = "normalize"
    /\ stages' = Append(stages, "normalize")
    /\ prev_2D' = chrom_2D
    /\ chrom_2D' = CASE call.normalize = "volume" -> normalize_by_volume(chrom_2D)
                     [] call.normalize = "max" -> normalize_max(chrom_2D)
                     [] OTHER -> chrom_2D
    /\ pc' = "construct"
    /\ UNCHANGED <<first, gui, call, chrom, interval, name, Output, exc>>

\* parsing.py 126-131: the arguments in the order the call passes them
Construct ==
    /\ pc = "construct"
    /\ stages' = Append(stages, "GCxGC_FID")
    /\ LET r == GCxGC_FID(chrom, chrom_2D, call.modulation_time, interval,
                          call.shift, call.solvent_cutoff)
       IN  IF r.ok
           THEN /\ Output' = [r.val EXCEPT !.name = name]
                /\ pc' = "returned" /\ exc' = exc
           ELSE Raised(r.exc, "GCxGC_FID") /\ UNCHANGED Output
    /\ UNCHANGED <<first, gui, call, chrom, chrom_2D, prev_2D, interval, name>>

Idle(c) ==
    /\ call = c
    /\ chrom = Frame(<<>>)
    /\ chrom_2D = NoMatrix
    /\ prev_2D = NoMatrix
    /\ interval = NaN
    /\ name = "None"
    /\ Output = NoEntity
    /\ exc = NoExc
    /\ stages = <<>>
    /\ first = NoOutcome
    /\ gui = NoGui

Init ==
    /\ pc = "bind"
    /\ \E c \in OptionCalls \cup DefaultCalls \cup ModeCalls : Idle(c)

Next ==
    \/ Bind
    \/ Resolve
    \/ Cutoff
    \/ Interval
    \/ Check
    \/ Split
    \/ Reshape
    \/ Shift
    \/ Baseline
    \/ Normalize
    \/ Construct

Spec == Init /\ [][Next]_vars

\* ------------------------------------------------------------------------
\* A caller that invokes parse_2D_chromatogram a second time on the same
\* in-memory table with the same options
\* ------------------------------------------------------------------------

\* invocations on a caller's frame without a phase shift
RetryCalls ==
    {c \in OptionCalls :
        c.shift = 0 /\ c.baseline_type = "stridewise" /\ c.normalize \in {"volume", "None"}}

InitRetry ==
    /\ pc = "bind"
    /\ \E c \in RetryCalls : Idle(c)

\* the caller keeps what the first invocation gave and calls again: data is
\* the same table object, as the first invocation left it (parsing.py 74
\* bound chrom to it)
Retry ==
    /\ pc \in {"returned", "raised"}
    /\ first = NoOutcome
    /\ first' = [kind |-> "outcome", pc |-> pc, exc |-> exc,
                 Output |-> Output, data |-> call.data]
    /\ call' = [call EXCEPT !.data.rows =
                    IF \E i \in 1..Len(stages) : stages[i] = "resolve"
                    THEN chrom.rows ELSE call.data.rows]
    /\ pc' = "bind"
    /\ chrom' = Frame(<<>>)
    /\ chrom_2D' = NoMatrix
    /\ prev_2D' = NoMatrix
    /\ interval' = NaN
    /\ name' = "None"
    /\ Output' = NoEntity
    /\ exc' = NoExc
    /\ stages' = <<>>
    /\ UNCHANGED gui

NextRetry ==
    \/ Next
    \/ Retry

SpecRetry == InitRetry /\ [][NextRetry]_vars

\* ------------------------------------------------------------------------
\* The library called directly: add_split, then convert_to2D on its result,
\* then a matrix transform on the matrix
\* ------------------------------------------------------------------------

\* longest trace handed to add_split directly
MaxLibLen == 7

LibIntensities == {-1, 0, 1}

\* a trace as parse_csv returns it: rows labelled 0..n-1, one per millisecond
LibRows(ys) == [i \in 1..Len(ys) |-> Row(i - 1, Rat(i - 1, 1000), I(ys[i]))]

LibFrames ==
    {[tag |-> "DataFrame", rows |-> LibRows(ys), path |-> <<>>] :
        ys \in UNION {[1..n -> LibIntensities] : n \in 1..MaxLibLen}}

\* modulation times of 1, 2 and 3 s at a sampling interval of 1000 ms:
\* 1, 2 and 3 samples per modulation
LibCalls ==
    {[DefaultCall(x[1], I(x[2])) EXCEPT !.sampling_interval = Num(I(1000))] :
        x \in LibFrames \X {1, 2, 3}}

InitFn ==
    /\ pc = "lib"
    /\ \E c \in LibCalls :
          /\ call = c
          /\ chrom = Frame(c.data.rows)
          /\ chrom_2D = NoMatrix
          /\ prev_2D = NoMatrix
          /\ interval = c.sampling_interval.v
          /\ name = "None"
          /\ Output = NoEntity
          /\ exc = NoExc
          /\ stages = <<>>
          /\ first = NoOutcome
          /\ gui = NoGui

LibAddSplit ==
    /\ pc = "lib"
    /\ stages' = Append(stages, "add_split")
    /\ LET r == add_split(chrom, call.modulation_time, interval)
       IN  /\ chrom' = r.df
           /\ CASE r.status = "ok" -> pc' = "lib_split" /\ exc' = exc
                [] r.status = "hang" -> pc' = "hung" /\ exc' = exc
                [] OTHER -> Raised(r.exc, "add_split")
    /\ UNCHANGED <<first, gui, call, chrom_2D, prev_2D, interval, name, Output>>

LibConvertTo2D ==
    /\ pc = "lib_split"
    /\ stages' = Append(stages, "convert_to2D")
    /\ LET r == convert_to2D(chrom, call.modulation_time)
       IN  IF r.ok
           THEN chrom_2D' = r.val /\ pc' = "lib_2D" /\ exc' = exc
           ELSE Raised(r.exc, "convert_to2D") /\ UNCHANGED chrom_2D
    /\ UNCHANGED <<first, gui, call, chrom, prev_2D, interval, name, Output>>

LibNormalizeByVolume ==
    /\ pc = "lib_2D"
    /\ stages' = Append(stages, "normalize_by_volume")
    /\ prev_2D' = chrom_2D
    /\ chrom_2D' = normalize_by_volume(chrom_2D)
    /\ pc' = "lib_normalized"
    /\ UNCHANGED <<first, gui, call, chrom, interval, name, Output, exc>>

\* shifts handed to shift_phase directly: up to a full turn either way
LibShifts == -3..3

\* shift_phase(matrix, s) on the matrix of convert_to2D
LibShiftPhase ==
    /\ pc = "lib_2D"
    /\ \E s \in LibShifts :
          /\ call' = [call EXCEPT !.shift = s]
          /\ chrom_2D' = shift_phase(chrom_2D, s)
    /\ stages' = Append(stages, "shift_phase")
    /\ prev_2D' = chrom_2D
    /\ pc' = "lib_shifted"
    /\ UNCHANGED <<first, gui, chrom, interval, name, Output, exc>>

\* baseline_stridewise(matrix) on the matrix of convert_to2D
LibBaselineStridewise ==
    /\ pc = "lib_2D"
    /\ stages' = Append(stages, "baseline_stridewise")
    /\ prev_2D' = chrom_2D
    /\ chrom_2D' = baseline_stridewise(chrom_2D)
    /\ pc' = "lib_baselined"
    /\ UNCHANGED <<first, gui, call, chrom, interval, name, Output, exc>>

NextFn ==
    \/ LibAddSplit
    \/ LibConvertTo2D
    \/ LibNormalizeByVolume
    \/ LibShiftPhase
    \/ LibBaselineStridewise

SpecFn == InitFn /\ [][NextFn]_vars

\* ------------------------------------------------------------------------
\* The shift and the baseline correction of parse_2D_chromatogram on
\* matrices built from traces that may have missing intensities (nan)
\* ------------------------------------------------------------------------

\* longest trace of these runs
MaxOrderLen == 5

OrderIntensities == {Zero, One, NaN}

OrderRows(ys) == [i \in 1..Len(ys) |-> Row(i - 1, Rat(i - 1, 1000), ys[i])]

OrderFrames ==
    {[tag |-> "DataFrame", rows |-> OrderRows(ys), path |-> <<>>] :
        ys \in UNION {[1..n -> OrderIntensities] : n \in 1..MaxOrderLen}}

\* two samples per modulation
OrderCalls ==
    {[DefaultCall(d, I(2)) EXCEPT !.sampling_interval = Num(I(1000))] : d \in OrderFrames}

OrderPolicies == {"stridewise", "global"}

InitOrder ==
    /\ pc = "lib"
    /\ \E c \in OrderCalls :
          /\ call = c
          /\ chrom = Frame(c.data.rows)
          /\ chrom_2D = NoMatrix
          /\ prev_2D = NoMatrix
          /\ interval = c.sampling_interval.v
          /\ name = "None"
          /\ Output = NoEntity
          /\ exc = NoExc
          /\ stages = <<>>
          /\ first = NoOutcome
          /\ gui = NoGui

\* parsing.py 103-104 with a shift other than 0; prev_2D keeps the matrix of
\* convert_to2D
OrderShift ==
    /\ pc = "lib_2D"
    /\ \E s \in LibShifts \ {0} : \E b \in OrderPolicies :
          /\ call' = [call EXCEPT !.shift = s, !.baseline_type = b]
          /\ chrom_2D' = shift_phase(chrom_2D, s)
    /\ stages' = Append(stages, "shift_phase")
    /\ prev_2D' = chrom_2D
    /\ pc' = "order_shifted"
    /\ UNCHANGED <<first, gui, chrom, interval, name, Output, exc>>

\* parsing.py 106-110
OrderBaseline ==
    /\ pc = "order_shifted"
    /\ stages' = Append(stages, "baseline")
    /\ chrom_2D' = (IF call.baseline_type = "stridewise"
                    THEN baseline_stridewise(chrom_2D)
                    ELSE baseline_global(chrom_2D, chrom))
    /\ pc' = "order_baselined"
    /\ UNCHANGED <<first, gui, call, chrom, prev_2D, interval, name, Output, exc>>

NextOrder ==
    \/ LibAddSplit
    \/ LibConvertTo2D
    \/ OrderShift
    \/ OrderBaseline

SpecOrder == InitOrder /\ [][NextOrder]_vars

\* ------------------------------------------------------------------------
\* add_split and convert_to2D on a caller's table whose integer row labels
\* need not be consecutive or start at 0 (a table that was filtered or
\* sliced and not re-indexed)
\* ------------------------------------------------------------------------

\* largest row label of these tables
MaxGapLabel == 5

RECURSIVE Ascending(_)
Ascending(S) ==
    IF S = {} THEN <<>>
    ELSE LET least == CHOOSE i \in S : \A j \in S : i <= j
         IN  <<least>> \o Ascending(S \ {least})

\* the rows labelled labels[1], labels[2], ..., one label per millisecond
GapRows(labels) ==
    [i \in 1..Len(labels) |-> Row(labels[i], Rat(labels[i], 1000), I(i))]

GapFrames ==
    {[tag |-> "DataFrame", rows |-> GapRows(Ascending(S)), path |-> <<>>] :
        S \in (SUBSET (0..MaxGapLabel)) \ {{}}}

\* 1, 2 and 3 samples per modulation
GapCalls ==
    {[DefaultCall(x[1], I(x[2])) EXCEPT !.sampling_interval = Num(I(1000))] :
        x \in GapFrames \X {1, 2, 3}}

InitGap ==
    /\ pc = "lib"
    /\ \E c \in GapCalls :
          /\ call = c
          /\ chrom = Frame(c.data.rows)
          /\ chrom_2D = NoMatrix
          /\ prev_2D = NoMatrix
          /\ interval = c.sampling_interval.v
          /\ name = "None"
          /\ Output = NoEntity
          /\ exc = NoExc
          /\ stages = <<>>
          /\ first = NoOutcome
          /\ gui = NoGui

NextGap ==
    \/ LibAddSplit
    \/ LibConvertTo2D

SpecGap == InitGap /\ [][NextGap]_vars

\* ------------------------------------------------------------------------
\* Mask integration: processing.mask_chromatogram, processing.integrate_masks,
\* main.integrate_masked and main.mask_integrate.
\* A mask file is [stem, ext, px]: stem is the file name without extension as
\* the sequence of its parts around 'Mask_', px the image tifffile.imread
\* returns (a sequence of rows of integers).
\* ------------------------------------------------------------------------

Shape(px) == <<Len(px), IF px = <<>> THEN 0 ELSE Len(px[1])>>

\* np.max(mask)
MaskMax(px) ==
    LET S == {px[r][c] : r \in 1..Shape(px)[1], c \in 1..Shape(px)[2]}
    IN  CHOOSE v \in S : \A w \in S : w <= v

ByteScale == 255

\* chromatogram * mask, element by element; scale divides the mask first
MaskProduct(chromatogram, px, scale) ==
    MapMatrix(chromatogram, LAMBDA r, c :
        FMul(chromatogram.m[r][c], FDiv(I(px[r][c]), I(scale))))

\* mask_chromatogram multiplying without comparing the shapes: the mask is
\* read cyclically
mask_chromatogram_unchecked(chromatogram, file) ==
    LET sh == Shape(file.px)
        wrapped == [r \in 1..chromatogram.R |-> [c \in 1..chromatogram.C |->
                       file.px[((r - 1) % sh[1]) + 1][((c - 1) % sh[2]) + 1]]]
    IN  [ok |-> TRUE, exc |-> "",
         val |-> MaskProduct(chromatogram, wrapped,
                             IF MaskMax(file.px) = ByteScale THEN ByteScale ELSE 1)]

\* mask_chromatogram using the mask's values as they are stored
mask_chromatogram_unscaled(chromatogram, file) ==
    IF Shape(file.px) # <<chromatogram.R, chromatogram.C>>
    THEN [ok |-> FALSE, exc |-> "ValueError", val |-> NoMatrix]
    ELSE [ok |-> TRUE, exc |-> "", val |-> MaskProduct(chromatogram, file.px, 1)]

\* processing.mask_chromatogram(chromatogram, mask_path)
mask_chromatogram(chromatogram, file) ==
    IF Shape(file.px) # <<chromatogram.R, chromatogram.C>>
    THEN [ok |-> FALSE, exc |-> "ValueError", val |-> NoMatrix]
    ELSE [ok |-> TRUE, exc |-> "",
          val |-> MaskProduct(chromatogram, file.px,
                              IF MaskMax(file.px) = ByteScale THEN ByteScale ELSE 1)]

\* f.lower().endswith('.tif')
IsTifName(file) == file.ext \in {".tif", ".TIF"}

\* a dict built by assigning values[i] to keys[i] for i = 1, 2, ...: a later
\* assignment to the same key replaces the earlier one
DictOf(keys, values) ==
    [k \in {keys[i] : i \in 1..Len(keys)} |->
        values[CHOOSE i \in 1..Len(keys) :
                  keys[i] = k /\ \A j \in (i + 1)..Len(keys) : keys[j] # k]]

NoResult == [kind |-> "None", entries |-> <<>>]

\* the results of mask_chromatogram on the masks of the list, in order, up
\* to and including the first one that raises
RECURSIVE MaskLoop(_, _)
MaskLoop(chromatogram, mask_list) ==
    IF mask_list = <<>> THEN <<>>
    ELSE LET masked == mask_chromatogram(chromatogram, Head(mask_list))
         IN  IF masked.ok
             THEN <<masked>> \o MaskLoop(chromatogram, Tail(mask_list))
             ELSE <<masked>>


\* processing.integrate_masks(chromatogram_2D, masks, mask_names).
\* masks is [tag, sep, files]: a directory ("dir", files as os.listdir gives
\* them), a list of paths ("list") or anything else; mask_names is 'infer',
\* a list of names or anything else.
integrate_masks(chromatogram_2D, masks, mask_names) ==
    LET mask_list == IF masks.tag = "dir" THEN SelectSeq(masks.files, IsTifName)
                     ELSE masks.files
        names == IF mask_names.tag = "infer"
                 THEN [i \in 1..Len(mask_list) |-> mask_list[i].stem]
                 ELSE mask_names.names
        loop == MaskLoop(chromatogram_2D, mask_list)
    IN  IF masks.tag \notin {"dir", "list"}
        THEN [ok |-> FALSE, exc |-> "TypeError", val |-> NoResult]
        ELSE IF Len(mask_list) = 0
        THEN [ok |-> FALSE, exc |-> "ValueError", val |-> NoResult]
        ELSE IF mask_names.tag \notin {"infer", "list"}
        THEN [ok |-> FALSE, exc |-> "TypeError", val |-> NoResult]
        ELSE IF Len(names) # Len(mask_list)
        THEN [ok |-> FALSE, exc |-> "ValueError", val |-> NoResult]
        ELSE IF ~loop[Len(loop)].ok
        THEN [ok |-> FALSE, exc |-> loop[Len(loop)].exc, val |-> NoResult]
        ELSE [ok |-> TRUE, exc |-> "",
              val |-> [kind |-> "dict",
                       entries |-> DictOf(names,
                           [i \in 1..Len(loop) |-> integrate_2D(loop[i].val)])]]

\* main.integrate_masked(df_norm_array, maskpath): the mask is always divided
\* by 255 and the shapes are left to the multiplication, which raises
\* ValueError for shapes that do not broadcast (the shapes of the masks
\* modelled here either equal the chromatogram's or do not broadcast)
integrate_masked(df_norm_array, file) ==
    IF Shape(file.px) # <<df_norm_array.R, df_norm_array.C>>
    THEN [ok |-> FALSE, exc |-> "ValueError", val |-> NaN]
    ELSE [ok |-> TRUE, exc |-> "",
          val |-> DoubleTrapezoid(MaskProduct(df_norm_array, file.px, ByteScale))]

\* the results of integrate_masked on the masks of the list, in order, up to
\* and including the first one that raises
RECURSIVE IntegralLoop(_, _)
IntegralLoop(df_array_norm, mask_list) ==
    IF mask_list = <<>> THEN <<>>
    ELSE LET integral == integrate_masked(df_array_norm, Head(mask_list))
         IN  IF integral.ok
             THEN <<integral>> \o IntegralLoop(df_array_norm, Tail(mask_list))
             ELSE <<integral>>

\* glob.glob(mask_dir + '*.tif'): the files of the directory only when
\* mask_dir ends with the path separator; the match is case-sensitive on
\* POSIX and not on Windows
Glob(mask_dir, posix) ==
    IF ~mask_dir.sep THEN <<>>
    ELSE SelectSeq(mask_dir.files,
                   LAMBDA f : IF posix THEN f.ext = ".tif" ELSE IsTifName(f))

\* main.mask_integrate(df_array_norm, mask_dir): a one-row table with one
\* column per mask name and the column 'unassigned'
mask_integrate(df_array_norm, mask_dir, posix) ==
    LET mask_list == Glob(mask_dir, posix)
        mask_names == [i \in 1..Len(mask_list) |->
                          <<mask_list[i].stem[Len(mask_list[i].stem)]>>]
        integral_list == IntegralLoop(df_array_norm, mask_list)
        values == [i \in 1..Len(integral_list) |-> integral_list[i].val]
    IN  IF integral_list # <<>> /\ ~integral_list[Len(integral_list)].ok
        THEN [ok |-> FALSE, exc |-> integral_list[Len(integral_list)].exc,
              val |-> NoResult]
        ELSE [ok |-> TRUE, exc |-> "",
              val |-> [kind |-> "table",
                       entries |-> DictOf(Append(mask_names, <<"unassigned">>),
                                          Append(values, FSub(One, SeqSum(values))))]]


\* ------------------------------------------------------------------------
\* The mask integrators called directly on a caller's matrix
\* ------------------------------------------------------------------------

\* most masks in one list or directory
MaxMasks == 3

\* a caller's matrix with elements F(r, c)
Matrix(kind, R, C, F(_, _)) ==
    [kind |-> kind, R |-> R, C |-> C,
     m |-> [r \in 1..R |-> [c \in 1..C |-> F(r, c)]],
     index |-> IF kind = "DataFrame" THEN [r \in 1..R |-> I(r - 1)] ELSE <<>>,
     columns |-> IF kind = "DataFrame" THEN [c \in 1..C |-> I(c - 1)] ELSE <<>>]

Ones(kind, n) == Matrix(kind, n, n, LAMBDA r, c : One)
Ramp(kind, n) == Matrix(kind, n, n, LAMBDA r, c : I(r + 2 * c))
Peak(kind, n) == Matrix(kind, n, n, LAMBDA r, c : IF r = 2 /\ c = 2 THEN I(3) ELSE Zero)

\* an all-ones matrix, volume-normalized matrices of both kinds, and a
\* smaller matrix (of volume 1 as it is)
MaskChromatograms ==
    {Ones("DataFrame", 4), normalize_by_volume(Ramp("ndarray", 4)),
     normalize_by_volume(Peak("DataFrame", 4)), Ones("ndarray", 2)}

\* the image of a region: high inside, 0 outside
RegionPx(n, In(_, _), high) ==
    [r \in 1..n |-> [c \in 1..n |-> IF In(r, c) THEN high ELSE 0]]

MaskFile(stem, ext, px) == [stem |-> stem, ext |-> ext, px |-> px]

\* the files there are: the left half stored as 0/1 and as 0/255, the right
\* half, a band overlapping both, the upper half under an upper-case
\* extension, an empty region, a mask of another shape, and a file that is
\* no mask, and the right half stored as 0/1
MaskFiles ==
    << MaskFile(<<"Mask_", "Left">>, ".tif",
                RegionPx(4, LAMBDA r, c : 2 * c <= 4, 1)),
       MaskFile(<<"Mask_", "Left255">>, ".tif",
                RegionPx(4, LAMBDA r, c : 2 * c <= 4, ByteScale)),
       MaskFile(<<"Mask_", "Right">>, ".tif",
                RegionPx(4, LAMBDA r, c : 2 * c > 4, ByteScale)),
       MaskFile(<<"Mask_", "Mid">>, ".tif",
                RegionPx(4, LAMBDA r, c : c \in 2..3, ByteScale)),
       MaskFile(<<"Mask_", "Top">>, ".TIF",
                RegionPx(4, LAMBDA r, c : 2 * r <= 4, 1)),
       MaskFile(<<"Mask_", "None">>, ".tif",
                RegionPx(4, LAMBDA r, c : FALSE, 1)),
       MaskFile(<<"Mask_", "Small">>, ".tif",
                RegionPx(2, LAMBDA r, c : TRUE, ByteScale)),
       MaskFile(<<"notes">>, ".txt", <<>>),
       MaskFile(<<"Mask_", "Right01">>, ".tif",
                RegionPx(4, LAMBDA r, c : 2 * c > 4, 1)) >>

\* a directory holding the files numbered in S
Directory(S, sep) ==
    [tag |-> "dir", sep |-> sep,
     files |-> [i \in 1..Cardinality(S) |-> MaskFiles[Ascending(S)[i]]]]

\* the sets of files a directory may hold
Holdings == {T \in SUBSET (1..Len(MaskFiles)) : Cardinality(T) <= MaxMasks}

\* the files a caller lists: the left half in both encodings, the right
\* half, the overlapping band and the mask of another shape
Listed == {1, 2, 3, 4, 7}

\* a list of paths: in any order, repeats included
PathList(ix) ==
    [tag |-> "list", sep |-> FALSE, files |-> [i \in 1..Len(ix) |-> MaskFiles[ix[i]]]]

Listings == UNION {[1..n -> Listed] : n \in 0..MaxMasks}

\* a masks argument that is neither a path nor a list
OtherMasks == [tag |-> "other", sep |-> FALSE, files |-> <<>>]

\* mask_names: 'infer', a list of n names, or something else
NameList(n) == [tag |-> "list", names |-> [i \in 1..n |-> <<"region", ToString(i)>>]]
InferNames == [tag |-> "infer", names |-> <<>>]
OtherNames == [tag |-> "other", names |-> <<>>]

\* the names inferred, listed (one per file, or one too many) or of a wrong
\* type
NamesFor(masks) ==
    {InferNames, OtherNames, NameList(Len(masks.files)), NameList(Len(masks.files) + 1)}

MaskCall(fn, chromatogram, masks, mask_names) ==
    [fn |-> fn, chromatogram |-> chromatogram, masks |-> masks, mask_names |-> mask_names]

\* integrate_masks on a matrix with a directory, a list or something else;
\* mask_integrate on a matrix with a directory, named with or without the
\* trailing separator
InitMask ==
    /\ pc = "mask_call"
    /\ \E chromatogram \in MaskChromatograms :
          /\ chrom_2D = chromatogram
          /\ \/ \E S \in Holdings : \E nm \in NamesFor(Directory(S, TRUE)) :
                   call = MaskCall("integrate_masks", chromatogram, Directory(S, TRUE), nm)
             \/ \E ix \in Listings : \E nm \in NamesFor(PathList(ix)) :
                   call = MaskCall("integrate_masks", chromatogram, PathList(ix), nm)
             \/ \E nm \in NamesFor(OtherMasks) :
                   call = MaskCall("integrate_masks", chromatogram, OtherMasks, nm)
             \/ \E S \in Holdings : \E sep \in BOOLEAN :
                   call = MaskCall("mask_integrate", chromatogram, Directory(S, sep), InferNames)
    /\ chrom = Frame(<<>>)
    /\ prev_2D = NoMatrix
    /\ interval = NaN
    /\ name = "None"
    /\ Output = NoResult
    /\ exc = NoExc
    /\ stages = <<>>
    /\ first = NoOutcome
    /\ gui = NoGui

IntegrateMasks ==
    /\ pc = "mask_call"
    /\ call.fn = "integrate_masks"
    /\ stages' = Append(stages, "integrate_masks")
    /\ LET r == integrate_masks(chrom_2D, call.masks, call.mask_names)
       IN  IF r.ok
           THEN Output' = r.val /\ pc' = "returned" /\ exc' = exc
           ELSE Raised(r.exc, "integrate_masks") /\ UNCHANGED Output
    /\ UNCHANGED <<first, gui, call, chrom, chrom_2D, prev_2D, interval, name>>

MaskIntegrate ==
    /\ pc = "mask_call"
    /\ call.fn = "mask_integrate"
    /\ stages' = Append(stages, "mask_integrate")
    /\ \E posix \in BOOLEAN :
          LET r == mask_integrate(chrom_2D, call.masks, posix)
          IN  IF r.ok
              THEN Output' = r.val /\ pc' = "returned" /\ exc' = exc
              ELSE Raised(r.exc, "mask_integrate") /\ UNCHANGED Output
    /\ UNCHANGED <<first, gui, call, chrom, chrom_2D, prev_2D, interval, name>>

NextMask ==
    \/ IntegrateMasks
    \/ MaskIntegrate

SpecMask == InitMask /\ [][NextMask]_vars

\* ------------------------------------------------------------------------
\* gui.mask_creator.MaskCreatorGUI: the object's chromatogram,
\* original_chromatogram, mask, shift_value, selected_points and status_var,
\* and the handlers of its buttons and selectors.  Dialogs are the choices of
\* the user; drawing (_display_chromatogram) changes none of these fields.
\* ------------------------------------------------------------------------

NoMask == [kind |-> "None", px |-> <<>>]

NdMask(px) == [kind |-> "ndarray", px |-> px]

NoSelection == [type |-> "none"]

\* np.zeros_like(chrom_2D, dtype=np.uint8)
zeros_like(M) == [r \in 1..M.R |-> [c \in 1..M.C |-> 0]]

\* parse_2D_chromatogram(file_path, modulation_time=..., sampling_interval=
\* 'infer') with the default options, as one call
ParseFile(path, modulation_time) ==
    LET chrom0 == parse_csv(path)
        d == DiffAtLabel1(chrom0.rows)
        sampling_interval == FMul(I(InferScale), d.val)
        multiple == is_integer_multiple(modulation_time, sampling_interval)
        split == add_split(chrom0, modulation_time, sampling_interval)
        matrix == convert_to2D(split.df, modulation_time)
        corrected == normalize_by_volume(baseline_stridewise(matrix.val))
        entity == GCxGC_FID(split.df, corrected, modulation_time, sampling_interval,
                            0, Zero)
    IN  IF ~d.ok THEN [ok |-> FALSE, exc |-> d.exc, val |-> NoEntity]
        ELSE IF ~multiple.ok THEN [ok |-> FALSE, exc |-> multiple.exc, val |-> NoEntity]
        ELSE IF ~multiple.val THEN [ok |-> FALSE, exc |-> "AssertionError", val |-> NoEntity]
        ELSE IF split.status = "raise" THEN [ok |-> FALSE, exc |-> split.exc, val |-> NoEntity]
        ELSE IF split.status = "hang" THEN [ok |-> FALSE, exc |-> "hang", val |-> NoEntity]
        ELSE IF ~matrix.ok THEN [ok |-> FALSE, exc |-> matrix.exc, val |-> NoEntity]
        ELSE IF ~entity.ok THEN entity
        ELSE [entity EXCEPT !.val.name = basename(path)]

\* longest trace behind a chromatogram of the workspace
MaxGuiLen == 7

\* the entity parse_2D_chromatogram builds, without baseline correction and
\* normalization, for a trace of n samples, all of intensity 1 but the second,
\* with mt samples per modulation
WorkspaceEntity(n, mt) ==
    LET trace == Frame(LibRows([i \in 1..n |-> IF i = 2 THEN 0 ELSE 1]))
        split == add_split(trace, I(mt), I(1000))
        matrix == convert_to2D(split.df, I(mt)).val
    IN  [GCxGC_FID(split.df, matrix, I(mt), I(1000), 0, Zero).val
            EXCEPT !.name = "Chromatogram"]

\* the GCxGC_FID objects of the caller's namespace: matrices of 2 x 3,
\* 3 x 2 and 2 x 2
Workspace ==
    {WorkspaceEntity(MaxGuiLen, 2), WorkspaceEntity(MaxGuiLen, 3),
     WorkspaceEntity(MaxGuiLen - 2, 2)}

\* the values of the shift spin box
GuiShifts == {-1, 0, 1, 2}

\* the modulation times entered in the dialog
GuiModulationTimes == {0, 4, 20}

\* the .tif files offered to _load_mask: masks of 2 x 3 stored as 0/1 and as
\* 0/255, a greyscale image of 2 x 3 (a chromatogram saved as .tif), a mask of
\* 4 x 4, and a file that is no image
GuiMaskFiles ==
    << MaskFile(<<"Mask_", "Edge">>, ".tif", <<<<1, 0, 0>>, <<1, 0, 0>>>>),
       MaskFile(<<"Mask_", "Edge255">>, ".tif", <<<<0, 0, ByteScale>>, <<0, 0, ByteScale>>>>),
       MaskFile(<<"chromatogram">>, ".tif", <<<<0, 128, 3>>, <<7, 0, 128>>>>),
       MaskFiles[1],
       MaskFiles[8] >>

\* a point of the axes, given by its fractions of the two ranges of limits
DataPoint(limits, fx, fy) ==
    << FAdd(limits[1], FMul(fx, FSub(limits[2], limits[1]))),
       FAdd(limits[3], FMul(fy, FSub(limits[4], limits[3]))) >>

\* _on_rectangle_select: the two corners of the rectangle drawn
RectangleSelection(p, q) == [type |-> "rectangle", coords |-> <<p, q>>]

\* _on_lasso_select / _on_polygon_select: the vertices, and with them the
\* elements path.contains_points finds inside (here: the first row, or none)
LassoSelection(kind) == [type |-> "lasso", inside |-> kind]

LassoInside(kind, r, c) == kind = "first row" /\ r = 1

\* the selections a user draws on the chromatogram shown
Selections(limits) ==
    {RectangleSelection(DataPoint(limits, Zero, Zero), DataPoint(limits, Half, Half)),
     RectangleSelection(DataPoint(limits, Half, Zero), DataPoint(limits, I(2), One)),
     LassoSelection("first row"), LassoSelection("nothing")}

InitGui ==
    /\ pc = "gui"
    /\ gui = [kind |-> "MaskCreatorGUI",
              chromatogram |-> NoEntity,
              original_chromatogram |-> NoEntity,
              mask |-> NoMask,
              shift_value |-> 0,
              selected_points |-> NoSelection,
              status_var |-> "Ready"]
    /\ \E c \in {DefaultCall(ExampleFile, I(20))} : call = c
    /\ chrom = Frame(<<>>)
    /\ chrom_2D = NoMatrix
    /\ prev_2D = NoMatrix
    /\ interval = NaN
    /\ name = "None"
    /\ Output = NoEntity
    /\ exc = NoExc
    /\ stages = <<>>
    /\ first = NoOutcome

GuiOnly == UNCHANGED <<pc, call, chrom, chrom_2D, prev_2D, interval, name, Output, exc, stages, first>>

\* _load_chromatogram
LoadChromatogram ==
    /\ pc = "gui"
    /\ \E file_path \in {<<>>, ExampleFile.path} : \E modulation_time \in GuiModulationTimes :
          IF file_path = <<>> THEN gui' = [gui EXCEPT !.status_var = "Ready"]
          ELSE IF modulation_time <= 0 THEN gui' = [gui EXCEPT !.status_var = "Ready"]
          ELSE LET r == ParseFile(file_path, I(modulation_time))
               IN  IF r.ok
                   THEN gui' = [gui EXCEPT !.chromatogram = r.val,
                                           !.original_chromatogram = r.val,
                                           !.shift_value = 0,
                                           !.mask = NdMask(zeros_like(r.val.chrom_2D)),
                                           !.status_var = "Chromatogram loaded"]
                   ELSE gui' = [gui EXCEPT !.status_var = "Error loading chromatogram"]
    /\ GuiOnly

\* _use_workspace_chromatogram: one of the GCxGC_FID objects found
UseWorkspaceChromatogram ==
    /\ pc = "gui"
    /\ \E found \in Workspace :
          gui' = [gui EXCEPT !.chromatogram = found,
                             !.original_chromatogram = found,
                             !.shift_value = 0,
                             !.mask = NdMask(zeros_like(found.chrom_2D))]
    /\ GuiOnly

\* _create_new_mask (the button)
CreateNewMask ==
    /\ pc = "gui"
    /\ IF gui.chromatogram = NoEntity
       THEN gui' = [gui EXCEPT !.status_var = "Warning"]
       ELSE gui' = [gui EXCEPT !.mask = NdMask(zeros_like(gui.chromatogram.chrom_2D)),
                               !.status_var = "New mask"]
    /\ GuiOnly

\* _on_rectangle_select, _on_lasso_select, _on_polygon_select: the selectors
\* exist once a chromatogram is shown
Select ==
    /\ pc = "gui"
    /\ gui.chromatogram # NoEntity
    /\ \E sel \in Selections(gui.chromatogram.limits) :
          gui' = [gui EXCEPT !.selected_points = sel, !.status_var = "Selected"]
    /\ GuiOnly

\* int(...) of data_to_array_x / data_to_array_y, clipped to the mask
ClipIndex(x, n) ==
    LET i == PyInt(x) IN IF i < 0 THEN 0 ELSE IF i > n - 1 THEN n - 1 ELSE i

Least(a, b) == IF a <= b THEN a ELSE b
Greatest(a, b) == IF a >= b THEN a ELSE b

\* the rows and columns (from 0) that _add_to_mask sets for a rectangle
RectangleCells(limits, coords, R, C) ==
    LET ax(x) == FMul(FDiv(FSub(x, limits[1]), FSub(limits[2], limits[1])), I(C))
        ay(y) == FMul(FDiv(FSub(limits[4], y), FSub(limits[4], limits[3])), I(R))
        x1 == ClipIndex(ax(coords[1][1]), C)
        y1 == ClipIndex(ay(coords[1][2]), R)
        x2 == ClipIndex(ax(coords[2][1]), C)
        y2 == ClipIndex(ay(coords[2][2]), R)
    IN  [rows |-> Least(y1, y2)..Greatest(y1, y2), cols |-> Least(x1, x2)..Greatest(x1, x2)]

\* int() of a nan or an infinity raises
RectangleFails(limits) == limits[1] = limits[2] \/ limits[3] = limits[4]

\* _add_to_mask
AddToMask ==
    /\ pc = "gui"
    /\ LET sel == gui.selected_points
           px == gui.mask.px
       IN  IF gui.chromatogram = NoEntity \/ gui.mask = NoMask
           THEN gui' = [gui EXCEPT !.status_var = "Warning"]
           ELSE IF sel = NoSelection
           THEN gui' = [gui EXCEPT !.status_var = "No selection"]
           ELSE IF sel.type = "rectangle"
           THEN IF RectangleFails(gui.chromatogram.limits)
                THEN gui' = [gui EXCEPT !.status_var = "Error processing selection"]
                ELSE LET cells == RectangleCells(gui.chromatogram.limits, sel.coords,
                                                 Len(px), Len(px[1]))
                     IN  gui' = [gui EXCEPT
                             !.mask = NdMask([r \in 1..Len(px) |-> [c \in 1..Len(px[r]) |->
                                         IF r - 1 \in cells.rows /\ c - 1 \in cells.cols
                                         THEN 1 ELSE px[r][c]]]),
                             !.selected_points = NoSelection,
                             !.status_var = "Added"]
           ELSE gui' = [gui EXCEPT
                   !.mask = NdMask([r \in 1..Len(px) |-> [c \in 1..Len(px[r]) |->
                               IF LassoInside(sel.inside, r, c) THEN 1 ELSE px[r][c]]]),
                   !.selected_points = NoSelection,
                   !.status_var = "Added"]
    /\ GuiOnly

\* _save_mask: the file written holds mask * 255
SaveMask ==
    /\ pc = "gui"
    /\ IF gui.chromatogram = NoEntity \/ gui.mask = NoMask
       THEN gui' = [gui EXCEPT !.status_var = "Warning"]
       ELSE \E chosen \in BOOLEAN :
               gui' = [gui EXCEPT !.status_var = IF chosen THEN "Mask saved" ELSE "Ready"]
    /\ GuiOnly

\* astype(np.uint8) after the division by 255 of a mask whose maximum is 255
AsUint8(px, scale) == [r \in 1..Len(px) |-> [c \in 1..Len(px[r]) |-> px[r][c] \div scale]]

\* _load_mask
LoadMask ==
    /\ pc = "gui"
    /\ IF gui.chromatogram = NoEntity
       THEN gui' = [gui EXCEPT !.status_var = "Warning"]
       ELSE \E k \in 0..Len(GuiMaskFiles) :
               IF k = 0 THEN gui' = [gui EXCEPT !.status_var = "Ready"]
               ELSE LET loaded_mask == GuiMaskFiles[k].px
                        M == gui.chromatogram.chrom_2D
                    IN  IF ~IsTifName(GuiMaskFiles[k])
                        THEN gui' = [gui EXCEPT !.status_var = "Error loading mask"]
                        ELSE IF Shape(loaded_mask) # <<M.R, M.C>>
                        THEN gui' = [gui EXCEPT !.status_var = "Error: dimensions"]
                        ELSE gui' = [gui EXCEPT
                                !.mask = NdMask(AsUint8(loaded_mask,
                                            IF MaskMax(loaded_mask) = ByteScale
                                            THEN ByteScale ELSE 1)),
                                !.status_var = "Mask loaded"]
    /\ GuiOnly

\* _apply_shift, the spin box holding shift
ApplyShift ==
    /\ pc = "gui"
    /\ \E shift \in GuiShifts :
          IF gui.original_chromatogram = NoEntity
          THEN gui' = [gui EXCEPT !.shift_value = shift, !.status_var = "Warning"]
          ELSE LET original == gui.original_chromatogram
                   shifted_chrom_2d == IF shift = 0 THEN original.chrom_2D
                                       ELSE shift_phase(original.chrom_2D, shift)
                   r == GCxGC_FID(original.chrom_1D, shifted_chrom_2d,
                                  original.sampling_interval, original.modulation_time,
                                  shift, original.solvent_cutoff)
               IN  IF r.ok
                   THEN gui' = [gui EXCEPT
                            !.shift_value = shift,
                            !.chromatogram = [r.val EXCEPT !.name = original.name,
                                                           !.limits = original.limits],
                            !.status_var = "Shift applied"]
                   ELSE gui' = [gui EXCEPT !.shift_value = shift,
                                           !.status_var = "Error applying shift"]
    /\ GuiOnly

NextGui ==
    \/ LoadChromatogram
    \/ UseWorkspaceChromatogram
    \/ CreateNewMask
    \/ Select
    \/ AddToMask
    \/ SaveMask
    \/ LoadMask
    \/ ApplyShift

SpecGui == InitGui /\ [][NextGui]_vars

\* ------------------------------------------------------------------------
\* Properties
\* ------------------------------------------------------------------------

\* the distinct segment indices add_split assigned
SegmentIndices(rows) == {rows[i].split : i \in 1..Len(rows)}

\* C1 (as claimed): the matrix convert_to2D builds from add_split's result has
\* one column per distinct segment index, the final padded segment included,
\* and one row per sample of a segment.
C1_ColumnsAreSegments ==
    pc = "lib_2D" =>
        /\ chrom_2D.C = Cardinality(SegmentIndices(chrom.rows))
        /\ chrom_2D.R = CountSplit(chrom.rows, Zero)

\* samples per modulation of the library calls: modulation_time s at 1000 ms
SamplesPerModulation == Floor(FMul(FDiv(call.modulation_time, interval), I(MsPerS)))

\* C2: in the matrix returned by convert_to2D, with R rows, the element at
\* row r and column c (both from 0) is the intensity of the raw trace's sample
\* at intra-segment position R-1-r of segment c, that is of sample c*R + R-1-r.
C2_ElementIsSegmentSample ==
    pc = "lib_2D" =>
        /\ chrom_2D.R = SamplesPerModulation
        /\ \A r \in 0..(chrom_2D.R - 1) : \A c \in 0..(chrom_2D.C - 1) :
              chrom_2D.m[r + 1][c + 1]
                  = call.data.rows[c * chrom_2D.R + (chrom_2D.R - 1 - r) + 1].y

\* a 2 x 3 matrix whose six elements are not all equal has been built
C2_Witness ==
    /\ pc = "lib_2D"
    /\ chrom_2D.R = 2 /\ chrom_2D.C = 3
    /\ chrom_2D.m[1][1] # chrom_2D.m[2][1]
    /\ chrom_2D.m[1][1] # chrom_2D.m[1][2]

\* the check has run on (modulation_time, sampling_interval)
Checked == \E i \in 1..Len(stages) : stages[i] = "is_integer_multiple"

Ran(stage) == \E i \in 1..Len(stages) : stages[i] = stage

\* modulation_time is a positive whole number of sampling intervals, both
\* taken as plain numbers
PositiveMultiple ==
    /\ IsFinite(interval) /\ interval.n # 0
    /\ FDiv(call.modulation_time, interval).d = 1
    /\ FDiv(call.modulation_time, interval).n > 0

\* C3 (as claimed): when modulation_time is not a positive integer multiple
\* of the sampling interval, parse_2D_chromatogram raises at its precondition
\* check: the Splitter does not run and no entity is returned.
C3_RejectedBeforeSplitter ==
    (Checked /\ ~PositiveMultiple) =>
        /\ pc = "raised"
        /\ exc.stage = "is_integer_multiple"
        /\ ~Ran("add_split")
        /\ Output = NoEntity

\* modulation_time (s) is a positive whole number of sampling intervals (ms)
ValidPair ==
    /\ IsFinite(interval) /\ interval.n > 0
    /\ FDiv(FMul(call.modulation_time, I(1000)), interval).d = 1
    /\ FDiv(FMul(call.modulation_time, I(1000)), interval).n > 0

\* C4 (as claimed): the precondition check passes for every valid pair,
\* modulation_time in seconds and sampling_interval in milliseconds.
C4_ValidPairPassesCheck ==
    (Checked /\ ValidPair) => ~(pc = "raised" /\ exc.stage = "is_integer_multiple")

\* C5 (as claimed): the returned entity records the caller's modulation time
\* as modulation_time and the sampling interval as sampling_interval, and a
\* file's base name as name.
C5_EntityRecordsTimes ==
    pc = "returned" =>
        /\ Output.modulation_time = call.modulation_time
        /\ Output.sampling_interval = interval
        /\ (call.data.tag = "path" => Output.name = basename(call.data.path))

\* C6 (as claimed): with a non-zero shift, a positive solvent cutoff and
\* volume normalization the invocation that reaches entity construction
\* returns an entity with that shift and that cutoff.
C6_ShiftedRunReturns ==
    (/\ Ran("GCxGC_FID")
     /\ call.shift # 0
     /\ FLt(Zero, call.solvent_cutoff)
     /\ call.normalize = "volume") =>
        /\ pc = "returned"
        /\ Output.shift = call.shift
        /\ Output.solvent_cutoff = call.solvent_cutoff

\* C7 (as claimed): an invocation on an in-memory table accepts the option
\* name=... : the call is not rejected for it.
C7_NameOptionAccepted ==
    (call.data.tag = "DataFrame" /\ "name" \in call.kwargs /\ pc # "bind") =>
        ~(pc = "raised" /\ exc.stage = "bind")

\* C8: after normalize_by_volume of a matrix whose double trapezoidal
\* integral is not zero, the double trapezoidal integral of the result is 1.
C8_NormalizedVolumeIsOne ==
    (pc = "lib_normalized" /\ integrate_2D(prev_2D) # Zero) =>
        integrate_2D(chrom_2D) = One

\* a 2 x 3 matrix of integral neither 0 nor 1 has been normalized
C8_Witness ==
    /\ pc = "lib_normalized"
    /\ prev_2D.R = 2 /\ prev_2D.C = 3
    /\ integrate_2D(prev_2D) \notin {Zero, One}
    /\ prev_2D.m[1][1] # prev_2D.m[1][2]

AllFinite(M) == \A r \in 1..M.R : \A c \in 1..M.C : IsFinite(M.m[r][c])

\* C9 (as claimed): volume normalization of a matrix of double integral 0
\* ends in an error: no normalized matrix comes out of it, none with nan or
\* infinite elements is kept or returned in an entity.
C9_ZeroVolumeIsAnError ==
    (Ran("normalize") /\ call.normalize = "volume") =>
        /\ integrate_2D(prev_2D) # Zero \/ pc = "raised"
        /\ AllFinite(chrom_2D)
        /\ AllFinite(Output.chrom_2D)

\* C10 (as claimed): with normalize 'max' every element is divided by the one
\* maximum of the whole matrix, and the largest element of the result is 1,
\* with a phase shift and without.
C10_MaxIsGlobal ==
    (/\ pc = "construct"
     /\ call.normalize = "max"
     /\ FLt(Zero, SeriesMax(Flatten(prev_2D.m)))) =>
        /\ \A r \in 1..chrom_2D.R : \A c \in 1..chrom_2D.C :
              chrom_2D.m[r][c] = FDiv(prev_2D.m[r][c], SeriesMax(Flatten(prev_2D.m)))
        /\ SeriesMax(Flatten(chrom_2D.m)) = One

C13_ShiftIsCircularRotation ==
    pc = "lib_shifted" =>
        LET R == prev_2D.R
            s == call.shift
        IN  /\ chrom_2D.R = R /\ chrom_2D.C = prev_2D.C
            /\ \A r \in 0..(R - 1) : \A c \in 1..prev_2D.C :
                  chrom_2D.m[((r + s) % R) + 1][c] = prev_2D.m[r + 1][c]
            /\ (s % R = 0) => (chrom_2D.m = prev_2D.m)
            /\ \A b \in LibShifts :
                  shift_phase(chrom_2D, b).m = shift_phase(prev_2D, (s + b) % R).m

\* three different rows shifted up by one, the first row wrapping to the end
C13_Witness ==
    /\ pc = "lib_shifted"
    /\ call.shift = -1
    /\ prev_2D.R = 3
    /\ prev_2D.m[1] # prev_2D.m[2] /\ prev_2D.m[2] # prev_2D.m[3]
    /\ chrom_2D.m[3] = prev_2D.m[1]

\* the 1D trace as loaded, before any stage has touched it
OriginalTrace ==
    IF call.data.tag = "DataFrame" THEN call.data.rows ELSE parse_csv(call.data.path).rows

\* C12 (as claimed): with baseline_type 'global' every element of the matrix
\* is lowered by one scalar, the least intensity of the original 1D trace as
\* loaded, also when a solvent cutoff is applied in the same invocation
C12_GlobalBaselineUsesOriginalMinimum ==
    (pc = "normalize" /\ call.baseline_type = "global") =>
        \A r \in 1..chrom_2D.R : \A c \in 1..chrom_2D.C :
            chrom_2D.m[r][c]
                = FSub(prev_2D.m[r][c], SeriesMin(IntensityColumn(OriginalTrace)))

\* the masks integrate_masks is given: the .tif files of a directory, or
\* the paths of a list
SuppliedMasks ==
    IF call.masks.tag = "dir" THEN SelectSeq(call.masks.files, IsTifName)
    ELSE call.masks.files

\* the name under which the i-th supplied mask is reported
ReportedName(i) ==
    IF call.mask_names.tag = "infer" THEN SuppliedMasks[i].stem
    ELSE call.mask_names.names[i]

\* C14: integrate_masks ends in an error and returns no mapping whenever one
\* of the supplied masks has a shape other than the chromatogram's, wherever
\* that mask stands in the list
C14_MismatchedMaskIsAnError ==
    (/\ pc # "mask_call"
     /\ call.fn = "integrate_masks"
     /\ \E i \in 1..Len(SuppliedMasks) :
           Shape(SuppliedMasks[i].px) # <<chrom_2D.R, chrom_2D.C>>)
        => (pc = "raised" /\ Output = NoResult)

\* two fitting masks followed by one of another shape: the call raises
C14_Witness ==
    /\ pc = "raised" /\ exc.type = "ValueError"
    /\ call.fn = "integrate_masks"
    /\ call.masks.tag = "list" /\ Len(call.masks.files) = 3
    /\ call.mask_names = InferNames
    /\ Shape(call.masks.files[1].px) = <<chrom_2D.R, chrom_2D.C>>
    /\ Shape(call.masks.files[2].px) = <<chrom_2D.R, chrom_2D.C>>
    /\ Shape(call.masks.files[3].px) # <<chrom_2D.R, chrom_2D.C>>

IsBinary(px) == \A r \in 1..Len(px) : \A c \in 1..Len(px[r]) : px[r][c] \in {0, 1}

\* the volume under the piecewise-linear surface through chromatogram * px
\* with unit spacing: the mean of the four corners of every cell, added up
CellVolume(chromatogram, px) ==
    LET P(r, c) == FMul(chromatogram.m[r][c], I(px[r][c]))
        across == chromatogram.C - 1
        Cell(k) == <<((k - 1) \div across) + 1, ((k - 1) % across) + 1>>
    IN  IF across <= 0 THEN Zero
        ELSE SeqSum([k \in 1..((chromatogram.R - 1) * across) |->
                FDiv(FAdd(FAdd(P(Cell(k)[1], Cell(k)[2]), P(Cell(k)[1] + 1, Cell(k)[2])),
                          FAdd(P(Cell(k)[1], Cell(k)[2] + 1),
                               P(Cell(k)[1] + 1, Cell(k)[2] + 1))),
                     I(4))])

AllOnes(M) == \A r \in 1..M.R : \A c \in 1..M.C : M.m[r][c] = One

IsLeftHalf(px, M) ==
    /\ Shape(px) = <<M.R, M.C>>
    /\ M.C % 2 = 0
    /\ \A r \in 1..M.R : \A c \in 1..M.C : px[r][c] = (IF 2 * c <= M.C THEN 1 ELSE 0)

\* C15: for every 0/1 mask, integrate_masks reports the double trapezoidal
\* integral of chromatogram * mask; for an all-ones chromatogram of volume V
\* and the mask of the left half of the columns it reports V / 2
C15_ReportsIntegralOfMaskedProduct ==
    (pc = "returned" /\ call.fn = "integrate_masks") =>
        \A i \in 1..Len(SuppliedMasks) :
            IsBinary(SuppliedMasks[i].px) =>
                /\ Output.entries[ReportedName(i)]
                       = CellVolume(chrom_2D, SuppliedMasks[i].px)
                /\ (AllOnes(chrom_2D) /\ IsLeftHalf(SuppliedMasks[i].px, chrom_2D)) =>
                       Output.entries[ReportedName(i)]
                           = Rat((chrom_2D.R - 1) * (chrom_2D.C - 1), 2)

\* the 4 x 4 all-ones matrix (volume 9) with the left-half mask: 9/2
C15_Witness ==
    /\ pc = "returned" /\ call.fn = "integrate_masks"
    /\ chrom_2D.R = 4 /\ chrom_2D.C = 4 /\ AllOnes(chrom_2D)
    /\ <<"Mask_", "Left">> \in DOMAIN Output.entries
    /\ Output.entries[<<"Mask_", "Left">>] = Rat(9, 2)

\* p stores with 0/1 the region that q stores with 0/255
SameRegion(p, q) ==
    /\ Shape(p) = Shape(q)
    /\ \A r \in 1..Len(p) : \A c \in 1..Len(p[r]) :
          /\ p[r][c] \in {0, 1}
          /\ q[r][c] = ByteScale * p[r][c]

\* C16: integrate_masks reports the same integral for a region stored as
\* 0/255 as for the same region stored as 0/1
C16_ByteMaskEqualsBinaryMask ==
    (pc = "returned" /\ call.fn = "integrate_masks") =>
        \A i, j \in 1..Len(SuppliedMasks) :
            SameRegion(SuppliedMasks[i].px, SuppliedMasks[j].px) =>
                Output.entries[ReportedName(i)] = Output.entries[ReportedName(j)]

\* the left half in both encodings in one call, with a non-zero integral
C16_Witness ==
    /\ pc = "returned" /\ call.fn = "integrate_masks"
    /\ {<<"Mask_", "Left">>, <<"Mask_", "Left255">>} \subseteq DOMAIN Output.entries
    /\ Output.entries[<<"Mask_", "Left">>] # Zero
    /\ Output.entries[<<"Mask_", "Left">>] = Output.entries[<<"Mask_", "Left255">>]
    /\ ~AllOnes(chrom_2D)

\* C17 (as claimed): integrate_masks and mask_integrate, given a directory
\* that holds no .tif file, end in an error and return nothing
C17_EmptyDirectoryIsAnError ==
    (/\ pc # "mask_call"
     /\ call.masks.tag = "dir"
     /\ \A i \in 1..Len(call.masks.files) : ~IsTifName(call.masks.files[i]))
        => (pc = "raised" /\ Output = NoResult)

RECURSIVE SumOver(_, _)
SumOver(f, S) ==
    IF S = {} THEN Zero
    ELSE LET k == CHOOSE x \in S : TRUE
         IN  FAdd(f[k], SumOver(f, S \ {k}))

\* C18 (as claimed): for a chromatogram of volume 1 the result of mask
\* integration holds an 'unassigned' entry equal to 1 minus the sum of the
\* entries of the named masks, not clamped
C18_UnassignedIsReported ==
    (pc = "returned" /\ integrate_2D(chrom_2D) = One) =>
        /\ <<"unassigned">> \in DOMAIN Output.entries
        /\ Output.entries[<<"unassigned">>]
               = FSub(One, SumOver(Output.entries,
                                   DOMAIN Output.entries \ {<<"unassigned">>}))

\* C19 (as claimed): with a baseline_type or a normalize the pipeline does
\* not know, parse_2D_chromatogram ends in an error and returns no entity
C19_UnknownModeIsAnError ==
    (call.baseline_type \notin BaselineTypes \/ call.normalize \notin NormalizeModes)
        => (pc # "returned" /\ Output = NoEntity)

\* C20 (as claimed): when parse_2D_chromatogram has returned or failed, the
\* caller's in-memory table holds the rows, columns and intensities it held
\* at the call
C20_CallerTableUnchanged ==
    (call.data.tag = "DataFrame" /\ pc \in {"returned", "raised"} /\ Ran("resolve"))
        => chrom = Frame(call.data.rows)

\* C22: the trace enters the Splitter with intensity 0 in every sample whose
\* retention time is at or before a solvent cutoff c > 0 and with the
\* original intensity in every other sample; with the cutoff 0 every sample
\* has its original intensity
C22_CutoffZeroesUpToCutoff ==
    pc = "split" =>
        /\ Len(chrom.rows) = Len(OriginalTrace)
        /\ \A i \in 1..Len(chrom.rows) :
              /\ chrom.rows[i].t = OriginalTrace[i].t
              /\ chrom.rows[i].y =
                    (IF FLt(Zero, call.solvent_cutoff)
                        /\ FLe(OriginalTrace[i].t, call.solvent_cutoff)
                     THEN Zero ELSE OriginalTrace[i].y)

\* a cutoff of 1 s on a trace with a sample exactly at 1 s and one after it
C22_Witness ==
    /\ pc = "split"
    /\ call.solvent_cutoff = One
    /\ \E i \in 1..Len(chrom.rows) :
          /\ chrom.rows[i].t = One /\ chrom.rows[i].y = Zero /\ OriginalTrace[i].y # Zero
    /\ \E i \in 1..Len(chrom.rows) :
          /\ FLt(One, chrom.rows[i].t) /\ chrom.rows[i].y # Zero

\* C23: for a trace at row positions 0..n-1 and a valid pair, add_split gives
\* the sample at position p the segment index floor(p / segment length), so
\* the indices start at 0, never decrease and rise by at most one; on return
\* every segment holds the same number of samples, the rows after the
\* original ones are copies of the last sample, fewer than one segment of
\* them, and every original sample is kept as it was.
C23_SplitIndexAndPadding ==
    pc = "lib_split" =>
        LET n == Len(call.data.rows)
            L == SamplesPerModulation
        IN  /\ Len(chrom.rows) >= n
            /\ Len(chrom.rows) - n < L
            /\ \A i \in 1..n :
                  /\ chrom.rows[i].label = call.data.rows[i].label
                  /\ chrom.rows[i].t = call.data.rows[i].t
                  /\ chrom.rows[i].y = call.data.rows[i].y
                  /\ chrom.rows[i].split = I((i - 1) \div L)
            /\ chrom.rows[1].split = Zero
            /\ \A i \in 1..(n - 1) :
                  \/ chrom.rows[i + 1].split = chrom.rows[i].split
                  \/ chrom.rows[i + 1].split = FAdd(chrom.rows[i].split, One)
            /\ \A i \in (n + 1)..Len(chrom.rows) :
                  /\ chrom.rows[i].t = chrom.rows[n].t
                  /\ chrom.rows[i].y = chrom.rows[n].y
                  /\ chrom.rows[i].split = chrom.rows[n].split
            /\ \A k \in SegmentIndices(chrom.rows) :
                  CountSplit(chrom.rows, k) = CountSplit(chrom.rows, Zero)

\* a trace of four samples split three to a segment: its final segment held
\* one sample and was padded with two copies of it
C23_Witness ==
    /\ pc = "lib_split"
    /\ SamplesPerModulation = 3
    /\ Len(call.data.rows) = 4
    /\ Len(chrom.rows) = 6
    /\ chrom.rows[6].y = call.data.rows[4].y
    /\ call.data.rows[4].y # call.data.rows[3].y

\* the stages of parse_2D_chromatogram in the order of its body
StageOrder ==
    <<"resolve", "split_solvent", "is_integer_multiple", "add_split",
      "convert_to2D", "shift_phase", "baseline", "normalize", "GCxGC_FID">>

StagePosition(stage) == CHOOSE k \in 1..Len(StageOrder) : StageOrder[k] = stage

\* C24: the stages an invocation of parse_2D_chromatogram has run are, in
\* order, input resolution, the optional solvent cutoff, (the check of the
\* pair,) Splitter, Reshaper, the optional phase shift, Baseline Corrector,
\* Normalizer and entity construction, each at most once and never going
\* back; once a stage has failed it is the last stage that ran and no entity
\* is returned.
C24_StagesInOneOrder ==
    /\ \A i \in 1..Len(stages) : \E k \in 1..Len(StageOrder) : StageOrder[k] = stages[i]
    /\ \A i \in 1..(Len(stages) - 1) :
          StagePosition(stages[i]) < StagePosition(stages[i + 1])
    /\ exc # NoExc =>
          /\ pc = "raised"
          /\ Output = NoEntity
          /\ \/ exc.stage \in {"bind", "interval"}
             \/ stages[Len(stages)] = exc.stage
    /\ (exc # NoExc /\ exc.stage = "bind") => stages = <<>>
    /\ (exc # NoExc /\ exc.stage = "interval") =>
          stages[Len(stages)] \in {"resolve", "split_solvent"}
    /\ pc = "returned" => stages[Len(stages)] = "GCxGC_FID"

\* an invocation with a solvent cutoff and a phase shift ran all the stages in
\* order and failed in the last one: no entity
C24_Witness ==
    /\ pc = "raised"
    /\ stages = StageOrder
    /\ exc.stage = "GCxGC_FID"
    /\ Output = NoEntity

\* the matrix of convert_to2D corrected first and shifted afterwards
BaselineThenShift ==
    shift_phase(IF call.baseline_type = "stridewise"
                THEN baseline_stridewise(prev_2D)
                ELSE baseline_global(prev_2D, chrom),
                call.shift)

\* C26 (as claimed): for the stridewise and the global baseline, the matrix
\* shifted and then corrected, as parse_2D_chromatogram does it, equals the
\* matrix corrected and then shifted, for every matrix and integer shift.
C26_ShiftAndBaselineCommute ==
    pc = "order_baselined" => chrom_2D = BaselineThenShift

\* the name under which mask_integrate or integrate_masks reports the i-th
\* supplied mask
IntegralName(i) ==
    IF call.fn = "mask_integrate"
    THEN <<SuppliedMasks[i].stem[Len(SuppliedMasks[i].stem)]>>
    ELSE ReportedName(i)

\* the supplied masks are 0/1 images of the chromatogram's shape, no two of
\* them covering the same element, and the integrator reads them all
DisjointBinaryMasks ==
    /\ Len(SuppliedMasks) > 0
    /\ call.fn = "mask_integrate" => call.masks.sep
    /\ \A i \in 1..Len(SuppliedMasks) :
          /\ SuppliedMasks[i].ext = ".tif"
          /\ Shape(SuppliedMasks[i].px) = <<chrom_2D.R, chrom_2D.C>>
          /\ IsBinary(SuppliedMasks[i].px)
    /\ \A i, j \in 1..Len(SuppliedMasks) :
          i # j => \A r \in 1..chrom_2D.R : \A c \in 1..chrom_2D.C :
                      SuppliedMasks[i].px[r][c] = 0 \/ SuppliedMasks[j].px[r][c] = 0

\* the 0/1 image of the union of the supplied masks
UnionPx ==
    [r \in 1..chrom_2D.R |-> [c \in 1..chrom_2D.C |->
        IF \E i \in 1..Len(SuppliedMasks) : SuppliedMasks[i].px[r][c] = 1
        THEN 1 ELSE 0]]

\* C27 (as claimed): for 0/1 masks that do not overlap, the integrals
\* reported for them add up to the integral of the chromatogram under their
\* union; for a chromatogram of volume 1 and masks that cover every element
\* they add up to 1 and the 'unassigned' value of mask_integrate is 0.
C27_IntegralsAreAdditive ==
    (pc = "returned" /\ DisjointBinaryMasks) =>
        LET total == SeqSum([i \in 1..Len(SuppliedMasks) |->
                                Output.entries[IntegralName(i)]])
        IN  /\ total = CellVolume(chrom_2D, UnionPx)
            /\ (/\ integrate_2D(chrom_2D) = One
                /\ \A r \in 1..chrom_2D.R : \A c \in 1..chrom_2D.C : UnionPx[r][c] = 1)
                  => /\ total = One
                     /\ call.fn = "mask_integrate" =>
                            Output.entries[<<"unassigned">>] = Zero

\* C28 (as claimed): the padding loop of add_split terminates for every
\* non-empty table, whatever integer row labels it carries, after appending
\* fewer rows than one segment holds.
C28_PaddingTerminates ==
    /\ pc # "hung"
    /\ pc = "lib_split" =>
          Len(chrom.rows) - Len(call.data.rows) < SamplesPerModulation

\* what integrate_masks returns for the chromatogram and the directory of
\* the call
SameCallOfIntegrateMasks == integrate_masks(chrom_2D, call.masks, InferNames)

\* C29 (as claimed): for a non-empty set of masks of the chromatogram's
\* shape, stored as 0/1 or as 0/255, mask_integrate and integrate_masks
\* report the same integral for each mask.
C29_IntegratorsAgree ==
    (/\ pc = "returned"
     /\ call.fn = "mask_integrate"
     /\ call.masks.sep
     /\ Len(SuppliedMasks) > 0
     /\ \A i \in 1..Len(SuppliedMasks) :
           /\ SuppliedMasks[i].ext = ".tif"
           /\ Shape(SuppliedMasks[i].px) = <<chrom_2D.R, chrom_2D.C>>)
        => /\ SameCallOfIntegrateMasks.ok
           /\ \A i \in 1..Len(SuppliedMasks) :
                 Output.entries[IntegralName(i)]
                     = SameCallOfIntegrateMasks.val.entries[SuppliedMasks[i].stem]

\* C21 (as claimed): a second invocation of parse_2D_chromatogram on the same
\* in-memory table with the same options ends as the first one did, with a
\* matrix of the same shape and elements, and leaves the entity the first
\* invocation returned (whose raw trace is the caller's table) as it was.
C21_RetryGivesSameOutcome ==
    (first # NoOutcome /\ pc \in {"returned", "raised", "hung"}) =>
        /\ pc = first.pc
        /\ exc = first.exc
        /\ pc = "returned" =>
              /\ Output.chrom_2D = first.Output.chrom_2D
              /\ chrom = first.Output.chrom_1D

\* the last handler that ran was _apply_shift on a loaded chromatogram
ShiftWasApplied == gui.status_var \in {"Shift applied", "Error applying shift"}

\* C25 (as claimed): after _apply_shift with the value s on a loaded
\* chromatogram, whatever shifts were applied before, the current matrix is
\* the stored original's matrix rotated by s rows, the current entity's shift
\* is s, its raw trace, name, limits, modulation time and sampling interval
\* are the original's, and the stored original is one of the entities of the
\* workspace, unchanged.
C25_ShiftIsAppliedToOriginal ==
    ShiftWasApplied =>
        LET current == gui.chromatogram
            original == gui.original_chromatogram
        IN  /\ current.chrom_2D.m = shift_phase(original.chrom_2D, gui.shift_value).m
            /\ current.shift = gui.shift_value
            /\ current.chrom_1D = original.chrom_1D
            /\ current.name = original.name
            /\ current.limits = original.limits
            /\ current.modulation_time = original.modulation_time
            /\ current.sampling_interval = original.sampling_interval
            /\ original \in Workspace

\* C30 (as claimed): whenever the mask creator holds a chromatogram and a
\* mask, the mask has the shape of the current matrix and every element of it
\* is 0 or 1.
C30_MaskIsWellFormed ==
    (gui.chromatogram # NoEntity /\ gui.mask # NoMask) =>
        /\ Shape(gui.mask.px)
              = <<gui.chromatogram.chrom_2D.R, gui.chromatogram.chrom_2D.C>>
        /\ IsBinary(gui.mask.px)

====
